---- MODULE Spec2Model ----
(***************************************************************************)
(* git-remote-igis: the translation engine between a Git object database   *)
(* and IPFS (src/index.js).  Object ids are content addresses: a Git OID   *)
(* is the tagged content of the object it names, a CID the tagged content  *)
(* of the IPFS node it names, so two ids are equal exactly when the        *)
(* objects are.  Every `await` of the source is a step of its own.         *)
(***************************************************************************)
EXTENDS Integers, Sequences, FiniteSets, TLC

(***************************************************************************)
(* Bounds of the model.                                                    *)
(***************************************************************************)
\* the number of doPush and doFetch calls made in one behaviour
MaxCalls == 2
\* the number of collaborator calls (IPFS, cache, Git) that fail in one behaviour
MaxFaults == 1
\* the number of times the user intervenes (clears the cache) in one behaviour
MaxEvents == 1

(***************************************************************************)
(* Values.                                                                 *)
(***************************************************************************)
\* undefined / null / a missing cache key
Nil == <<>>

\* libgit2's file modes (octal 100644, 100755, 120000, 160000, 40000)
FILEMODE ==
  [BLOB |-> 33188, EXECUTABLE |-> 33261, LINK |-> 40960, COMMIT |-> 57344,
   TREE |-> 16384]

\* the first digit of n.toString(8)
RECURSIVE firstOctalDigit(_)
firstOctalDigit(n) == IF n < 8 THEN n ELSE firstOctalDigit(n \div 8)

\* Git object ids
BlobOid(content) == <<"blob", content>>
TreeEntry(mode, oid) == [mode |-> mode, oid |-> oid]
TreeOid(entries) == <<"tree", entries>>
CommitOid(c) == <<"commit", c>>
TagOid(t) == <<"tag", t>>

\* a nodegit signature
Signature(name, email, time, offset) == <<"sig", name, email, time, offset>>

\* the order in which a Git tree lists its entries
NameOrder == <<".git", "a", "b", "d", "f", "s">>

NameSet == {NameOrder[i] : i \in 1..Len(NameOrder)}

\* tree.entries(): the names of a tree in Git's order
entries(treeOid) == SelectSeq(NameOrder, LAMBDA n : n \in DOMAIN treeOid[2])

\* IPFS content ids
EMPTY_REPO_CID == <<"dir", <<>>>>
FileCid(content) == <<"file", content>>
\* ipfs.object.patch.addLink(base, { name, cid })
addLink(base, name, cid) == <<"dir", (name :> cid) @@ base[2]>>
\* the CID ipfs.dag.put(obj) returns
dagCid(kind, obj) == <<"cbor", kind, obj>>

(***************************************************************************)
(* The local repositories pushed from.                                     *)
(***************************************************************************)
ann == Signature("ann", "ann@example.org", 7, 60)
bob == Signature("bob", "bob@example.org", 9, 0)

GitCommit(tree, parents, message, gpgsig) ==
  CommitOid([tree |-> tree, parents |-> parents, author |-> ann,
             committer |-> bob, encoding |-> <<"UTF-8">>, message |-> message,
             gpgsig |-> gpgsig])

\* directories holding one file "f" with the same content and different modes
dir644 == TreeOid("f" :> TreeEntry(FILEMODE.BLOB, BlobOid("x")))
dir755 == TreeOid("f" :> TreeEntry(FILEMODE.EXECUTABLE, BlobOid("x")))

treeX == TreeOid("f" :> TreeEntry(FILEMODE.BLOB, BlobOid("x")))
treeY == TreeOid("f" :> TreeEntry(FILEMODE.EXECUTABLE, BlobOid("y")))
treeL == TreeOid("f" :> TreeEntry(FILEMODE.LINK, BlobOid("x")))
treeD644 == TreeOid("d" :> TreeEntry(FILEMODE.TREE, dir644))
treeD755 == TreeOid("d" :> TreeEntry(FILEMODE.TREE, dir755))
treeAB ==
  TreeOid(("a" :> TreeEntry(FILEMODE.TREE, dir644))
          @@ ("b" :> TreeEntry(FILEMODE.TREE, dir755)))

\* a merge of cP1 with its own parent cA, and a signed root commit cP2
cA == GitCommit(treeX, <<>>, "a", Nil)
cP1 == GitCommit(treeY, <<cA>>, "p1", Nil)
cP2 == GitCommit(treeL, <<>>, "p2", <<"PGP-p2">>)
cM == GitCommit(treeY, <<cP1, cA>>, "m", Nil)

\* a history whose second commit only makes d/f executable
cOld == GitCommit(treeD644, <<>>, "add d/f", Nil)
cChmod == GitCommit(treeD755, <<cOld>>, "chmod +x d/f", Nil)

\* one commit with two directories of the same content and different modes
cAB == GitCommit(treeAB, <<>>, "a and b", Nil)

\* one commit whose tree has a file and the gitlink "s" of a submodule: the
\* entry names a commit of another repository
cSub ==
  GitCommit(TreeOid(("f" :> TreeEntry(FILEMODE.BLOB, BlobOid("x")))
                    @@ ("s" :> TreeEntry(FILEMODE.COMMIT, cA))),
            <<>>, "add submodule s", Nil)

\* an annotated tag object
GitTag(target, message) ==
  TagOid([target |-> target, tagger |-> ann, message |-> message])

tagV1 == GitTag(cP1, <<"v1", "-----BEGIN PGP SIGNATURE-----", "sig-v1">>)

\* each repository: its references
\* reference names, split at "/"
master == <<"refs", "heads", "master">>
dev == <<"refs", "heads", "dev">>
old == <<"refs", "heads", "old">>
gone == <<"refs", "heads", "gone">>
v1 == <<"refs", "tags", "v1">>
lw == <<"refs", "tags", "lw">>

Repos ==
  { [name |-> "merge",
     refs |-> (master :> cM) @@ (dev :> cP1) @@ (v1 :> tagV1) @@ (lw :> cP2)],
    [name |-> "chmod", refs |-> (master :> cChmod) @@ (old :> cOld)],
    [name |-> "ab", refs |-> (master :> cAB)],
    [name |-> "sub", refs |-> (master :> cSub)] }

\* the commits a push can meet
Commits == {cA, cP1, cP2, cM, cOld, cChmod, cAB, cSub}

\* the batches of (src, dst) pairs Git hands to doPush; an empty src is a
\* deletion request, which names no local reference
Batches(r) ==
  IF r.name = "merge"
  THEN { << <<master, master>> >>,
         << <<v1, v1>>, <<dev, dev>> >>,
         << <<Nil, gone>>, <<lw, lw>> >> }
  ELSE IF r.name = "chmod"
  THEN { << <<master, master>> >>, << <<old, old>> >> }
  ELSE { << <<master, master>> >> }

\* the `meta` argument of the constructor: the fields the caller supplies
Metas ==
  { [name |-> Nil, uuid |-> Nil, refs |-> Nil],
    [name |-> <<"mine">>, uuid |-> <<<<"given", 0>>>>, refs |-> Nil],
    [name |-> Nil, uuid |-> Nil, refs |-> << <<>> >>] }

\* the `url` argument of the constructor before any remote exists
Urls == { Nil, <<"ipfs://", "">>, <<"ipfs://", "proj">> }

\* the first constructions: (url, meta)
Constructions ==
  {<<u, [name |-> Nil, uuid |-> Nil, refs |-> Nil]>> : u \in Urls}
  \cup {<<<<"ipfs://", "proj">>, m>> : m \in Metas}

(***************************************************************************)
(* State.                                                                  *)
(***************************************************************************)
VARIABLES
  repo,       \* this.repo: the local repository pushed from
  faults,     \* the number of collaborator calls that have failed
  events,     \* the number of interventions of the user so far
  url,        \* this.url
  vfs,        \* this.vfs
  cache,      \* this.cache: key -> value
  ipfs,       \* the CIDs stored in the IPFS node
  oidMgr,     \* this.oidMgr.resolvers: oid -> Nil or the list of waiters
  ptask,      \* the executions of pushCommit
  push,       \* the execution of doPush: its position and locals
  pushRefs,   \* the pairs doPush has not shifted yet
  stdout,     \* the lines the running doPush wrote to process.stdout
  calls,      \* the number of doPush and doFetch calls made
  minted,     \* the number of uuids uuidv1() has returned
  bodyRuns,   \* oid -> how often this doPush started pushCommit's body
  bodyFails,  \* oid -> how many of these executions threw
  meta,       \* the `meta` argument this instance was constructed with
  hist,       \* what the doPush calls did: see newHist
  fetch,      \* the execution of doFetch: its position and locals
  cidMgr,     \* this.cidMgr.resolvers: cid -> the list of waiters
  ftask,      \* the executions of fetchCommit, by their argument
  ftree,      \* the executions of fetchTree, by fetchCommit and path
  odb,        \* the object database of the repository fetched into
  refsB       \* the references of the repository fetched into

\* the state of the instance that calls
pushVars ==
  <<url, vfs, oidMgr, ptask, push, pushRefs, stdout, calls, minted, bodyRuns,
    bodyFails, meta, hist>>

\* the state of the instance that fetches
fetchVars == <<fetch, cidMgr, ftask, ftree, odb, refsB>>

vars == <<repo, faults, events, cache, ipfs, pushVars, fetchVars>>

(***************************************************************************)
(* The cache and the signatures.                                           *)
(***************************************************************************)
\* this.cache.get(key)
cacheGet(key) == IF key \in DOMAIN cache THEN cache[key] ELSE Nil

\* the store after this.cache.put(key, value)
cachePut(key, value) == (key :> value) @@ cache

\* the record of the doPush calls: `reputs` are the nodes the running doPush
\* gave to ipfs.dag.put although the IPFS node had them, `done` the batch,
\* the root and the number of `ok` lines of every doPush that returned
newHist == [reputs |-> {}, done |-> <<>>, overtaken |-> {}]

\* the record after this.ipfs.dag.put of the node with this CID
dagPut(cid) ==
  IF cid \in ipfs THEN [hist EXCEPT !.reputs = @ \cup {cid}] ELSE hist

\* the key `modes:${oid}`
modesKey(oid) == <<"modes", oid>>

objForSig(sig) ==
  [name |-> sig[2], email |-> sig[3], time |-> sig[4], offset |-> sig[5]]

sigForObj(obj) == Signature(obj.name, obj.email, obj.time, obj.offset)

(***************************************************************************)
(* oidMgr: the push-side resolver.                                         *)
(***************************************************************************)
\* a promise that has not been resolved
Pending == <<"pending">>

PTaskIds == {"direct", "conv"} \X Commits

idleTask ==
  [pc |-> "idle", stack |-> <<>>, tree |-> Nil, modes |-> Nil,
   parents |-> <<>>, cid |-> Nil]

\* a variant that keeps the values in the order the promises resolve
resolveInCompletionOrder(tasks, waiter, cid) ==
  LET slots == tasks[waiter.task].parents
      free == CHOOSE j \in DOMAIN slots :
                /\ slots[j] = Pending
                /\ \A k \in 1..(j - 1) : slots[k] # Pending
  IN  [tasks EXCEPT ![waiter.task].parents[free] = cid]

\* Promise.all keeps the value a promise resolves with at that promise's index
resolve(tasks, waiter, cid) ==
  [tasks EXCEPT ![waiter.task].parents[waiter.index] = cid]

\* the loop of cidFound: pop each resolver and call it with cid
RECURSIVE wake(_, _, _)
wake(tasks, waiters, cid) ==
  IF waiters = <<>>
  THEN tasks
  ELSE wake(resolve(tasks, waiters[Len(waiters)], cid),
            SubSeq(waiters, 1, Len(waiters) - 1), cid)

\* oidMgr.cidFound(oid, cid): the tasks and the resolvers after it
cidFound(st, oid, cid) ==
  IF oid \in DOMAIN st.mgr
  THEN [st EXCEPT !.tasks = wake(st.tasks, st.mgr[oid], cid),
                  !.mgr[oid] = <<>>]
  ELSE st

\* a variant of convert that starts pushCommit(oid) on every call
convertUncoalesced(st, t, i, oid) ==
  [st EXCEPT
     !.tasks[<<"conv", oid>>] = [idleTask EXCEPT !.pc = "cacheGet"],
     !.mgr = (oid :> (IF oid \in DOMAIN st.mgr
                      THEN Append(st.mgr[oid], [task |-> t, index |-> i])
                      ELSE <<[task |-> t, index |-> i]>>)) @@ st.mgr]

\* oidMgr.convert(oid), called by task t for the parent at index i
convert(st, t, i, oid) ==
  LET started ==
        IF oid \in DOMAIN st.mgr
        THEN st
        ELSE [st EXCEPT
                !.tasks[<<"conv", oid>>] = [idleTask EXCEPT !.pc = "cacheGet"],
                !.mgr = (oid :> <<>>) @@ st.mgr]
  IN  [started EXCEPT
         !.mgr[oid] = Append(started.mgr[oid], [task |-> t, index |-> i])]

\* (await head.parents()).map(p => this.oidMgr.convert(p))
RECURSIVE convertAll(_, _, _, _)
convertAll(st, t, parents, i) ==
  IF i > Len(parents)
  THEN st
  ELSE convertAll(convert(st, t, i, parents[i]), t, parents, i + 1)

(***************************************************************************)
(* pushTree.  A call is a frame on the stack of the pushCommit execution   *)
(* that made it; the frame at the head of the stack is the running one.    *)
(***************************************************************************)
\* pushTree(tree) up to its first await of the cache
newFrame(treeOid) ==
  [tree |-> treeOid, todo |-> entries(treeOid), base |-> EMPTY_REPO_CID,
   modes |-> <<>>, st |-> "get", cid |-> Nil, childModes |-> Nil]

top(t) == Head(ptask[t].stack)
\* the tree entry `e` of the running frame
entryName(t) == Head(top(t).todo)
entry(t) == top(t).tree[2][entryName(t)]

inTree(t, st) ==
  /\ ptask[t].pc = "pushTree"
  /\ top(t).st = st

setTop(t, frame) ==
  [ptask EXCEPT ![t].stack = <<frame>> \o Tail(ptask[t].stack)]

\* e.isTree()
isTree(e) == e.oid[1] = "tree"

\* let cid = await this.cache.get(e.oid()), and the branch taken on it
pushTreeGet(t) ==
  /\ inTree(t, "get")
  /\ top(t).todo # <<>>
  /\ LET e == entry(t)
         cid == cacheGet(e.oid)
         f == [top(t) EXCEPT !.cid = cid]
     IN  ptask' =
           IF isTree(e)
           THEN setTop(t, [f EXCEPT !.st = "getModes"])
           ELSE IF firstOctalDigit(e.mode) = 1
           THEN IF cid = Nil
                THEN setTop(t, [f EXCEPT !.st = "add"])
                ELSE setTop(t, [f EXCEPT !.st = "link",
                                         !.modes = (entryName(t) :> <<"mode", e.mode>>) @@ @])
           ELSE \* neither blob nor tree: warn and continue
                setTop(t, [f EXCEPT !.todo = Tail(@)])
  /\ UNCHANGED <<repo, events, faults, url, vfs, cache, ipfs, oidMgr, push,
                 pushRefs, stdout, calls, minted, bodyRuns, bodyFails, meta,
                 hist, fetchVars>>

\* let childModes = await this.cache.get(`modes:${e.oid()}`); on a miss of
\* either key pushTree(await e.getTree()) is called
pushTreeGetModes(t) ==
  /\ inTree(t, "getModes")
  /\ LET e == entry(t)
         childModes == cacheGet(modesKey(e.oid))
     IN  ptask' =
           IF top(t).cid = Nil \/ childModes = Nil
           THEN [ptask EXCEPT
                   ![t].stack = <<newFrame(e.oid), [top(t) EXCEPT !.st = "call"]>>
                                \o Tail(@)]
           ELSE setTop(t, [top(t) EXCEPT
                             !.st = "link", !.childModes = childModes,
                             !.modes = (entryName(t) :> childModes) @@ @])
  /\ UNCHANGED <<repo, events, faults, url, vfs, cache, ipfs, oidMgr, push,
                 pushRefs, stdout, calls, minted, bodyRuns, bodyFails, meta,
                 hist, fetchVars>>

\* cid = (await all(this.ipfs.add({ content, pin: true })))[0].cid
\* `await e.getBlob()` of an entry that names no blob rejects: pushTree, and
\* the pushCommit that awaits it, reject
getBlobThrows(t) ==
  /\ inTree(t, "add")
  /\ entry(t).oid[1] # "blob"
  /\ ptask' = [ptask EXCEPT ![t] = [idleTask EXCEPT !.pc = "failed"]]
  /\ bodyFails' = [bodyFails EXCEPT ![t[2]] = @ + 1]
  /\ UNCHANGED <<repo, events, faults, url, vfs, cache, ipfs, oidMgr, push,
                 pushRefs, stdout, calls, minted, bodyRuns, meta, hist,
                 fetchVars>>

pushTreeAdd(t) ==
  /\ inTree(t, "add")
  /\ entry(t).oid[1] = "blob"
  /\ LET cid == FileCid(entry(t).oid[2])
     IN  /\ ptask' = setTop(t, [top(t) EXCEPT !.st = "putBlob", !.cid = cid])
         /\ ipfs' = ipfs \cup {cid}
  /\ UNCHANGED <<repo, events, faults, url, vfs, cache, oidMgr, push, pushRefs,
                 stdout, calls, minted, bodyRuns, bodyFails, meta, hist,
                 fetchVars>>

\* await this.cache.put(e.oid(), cid); modes[e.name()] = e.filemode()
\* a variant that leaves the file out of the modes mapping
pushTreePutBlobOnly(t) ==
  /\ inTree(t, "putBlob")
  /\ cache' = cachePut(entry(t).oid, top(t).cid)
  /\ ptask' = setTop(t, [top(t) EXCEPT !.st = "link"])
  /\ UNCHANGED <<repo, events, faults, url, vfs, ipfs, oidMgr, push, pushRefs,
                 stdout, calls, minted, bodyRuns, bodyFails, meta, hist,
                 fetchVars>>

pushTreePutBlob(t) ==
  /\ inTree(t, "putBlob")
  /\ cache' = cachePut(entry(t).oid, top(t).cid)
  /\ ptask' = setTop(t, [top(t) EXCEPT
                           !.st = "link",
                           !.modes = (entryName(t) :> <<"mode", entry(t).mode>>) @@ @])
  /\ UNCHANGED <<repo, events, faults, url, vfs, ipfs, oidMgr, push, pushRefs,
                 stdout, calls, minted, bodyRuns, bodyFails, meta, hist,
                 fetchVars>>

\* await this.cache.put(e.oid().toString(), cid)
pushTreePutCid(t) ==
  /\ inTree(t, "putCid")
  /\ cache' = cachePut(entry(t).oid, top(t).cid)
  /\ ptask' = setTop(t, [top(t) EXCEPT !.st = "putModes"])
  /\ UNCHANGED <<repo, events, faults, url, vfs, ipfs, oidMgr, push, pushRefs,
                 stdout, calls, minted, bodyRuns, bodyFails, meta, hist,
                 fetchVars>>

\* await this.cache.put(`modes:${e.oid()}`, childModes); modes[e.name()] = childModes
pushTreePutModes(t) ==
  /\ inTree(t, "putModes")
  /\ cache' = cachePut(modesKey(entry(t).oid), top(t).childModes)
  /\ ptask' = setTop(t, [top(t) EXCEPT
                           !.st = "link",
                           !.modes = (entryName(t) :> top(t).childModes) @@ @])
  /\ UNCHANGED <<repo, events, faults, url, vfs, ipfs, oidMgr, push, pushRefs,
                 stdout, calls, minted, bodyRuns, bodyFails, meta, hist,
                 fetchVars>>

\* base = await this.ipfs.object.patch.addLink(base, { name, cid })
pushTreeLink(t) ==
  /\ inTree(t, "link")
  /\ LET base == addLink(top(t).base, entryName(t), top(t).cid)
     IN  /\ ptask' = setTop(t, [top(t) EXCEPT
                                  !.st = "get", !.base = base, !.todo = Tail(@)])
         /\ ipfs' = ipfs \cup {base}
  /\ UNCHANGED <<repo, events, faults, url, vfs, cache, oidMgr, push, pushRefs,
                 stdout, calls, minted, bodyRuns, bodyFails, meta, hist,
                 fetchVars>>

\* return [base, await this.ipfs.dag.put(modes)], to the pushTree or the
\* pushCommit that awaits it
pushTreeReturn(t) ==
  /\ inTree(t, "get")
  /\ top(t).todo = <<>>
  /\ LET modesCid == dagCid("modes", top(t).modes)
         rest == Tail(ptask[t].stack)
     IN  /\ ipfs' = ipfs \cup {modesCid}
         /\ ptask' =
              IF rest = <<>>
              THEN [ptask EXCEPT ![t].stack = <<>>, ![t].pc = "convert",
                                 ![t].tree = top(t).base, ![t].modes = modesCid]
              ELSE [ptask EXCEPT
                      ![t].stack =
                        <<[Head(rest) EXCEPT !.st = "putCid", !.cid = top(t).base,
                                             !.childModes = modesCid]>>
                        \o Tail(rest)]
  /\ hist' = dagPut(dagCid("modes", top(t).modes))
  /\ UNCHANGED <<repo, events, faults, url, vfs, cache, oidMgr, push, pushRefs,
                 stdout, calls, minted, bodyRuns, bodyFails, meta, fetchVars>>

pushTree(t) ==
  \/ pushTreeGet(t)
  \/ pushTreeGetModes(t)
  \/ pushTreeAdd(t)
  \/ getBlobThrows(t)
  \/ pushTreePutBlob(t)
  \/ pushTreePutCid(t)
  \/ pushTreePutModes(t)
  \/ pushTreeLink(t)
  \/ pushTreeReturn(t)

(***************************************************************************)
(* pushCommit.                                                             *)
(***************************************************************************)
\* the tasks and resolvers during a synchronous stretch of code
now(tasks) == [tasks |-> tasks, mgr |-> oidMgr]

\* the commit node pushCommit builds for `oid`
commitNode(oid, tree, modes, parents) ==
  LET head == oid[2]
  IN  [authorSig |-> objForSig(head.author),
       committerSig |-> objForSig(head.committer),
       encoding |-> head.encoding, message |-> head.message,
       parents |-> parents, tree |-> tree, modes |-> modes, oid |-> oid,
       signature |-> head.gpgsig]

\* let cid = await this.cache.get(oid); on a hit, cidFound and return
pushCommitCacheGet(t) ==
  /\ ptask[t].pc = "cacheGet"
  /\ LET cid == cacheGet(t[2])
         st == cidFound(now([ptask EXCEPT ![t].pc = "done", ![t].cid = cid]),
                        t[2], cid)
     IN  IF cid # Nil
         THEN ptask' = st.tasks /\ oidMgr' = st.mgr
         ELSE ptask' = [ptask EXCEPT ![t].pc = "lookup"] /\ oidMgr' = oidMgr
  /\ UNCHANGED <<repo, events, faults, url, vfs, cache, ipfs, push, pushRefs,
                 stdout, calls, minted, bodyRuns, bodyFails, meta, hist,
                 fetchVars>>

\* Git.Commit.lookup, head.getTree() and the call of pushTree
pushCommitLookup(t) ==
  /\ ptask[t].pc = "lookup"
  /\ ptask' = [ptask EXCEPT ![t].pc = "pushTree",
                            ![t].stack = <<newFrame(t[2][2].tree)>>]
  /\ bodyRuns' = [bodyRuns EXCEPT ![t[2]] = @ + 1]
  /\ UNCHANGED <<repo, events, faults, url, vfs, cache, ipfs, oidMgr, push,
                 pushRefs, stdout, calls, minted, bodyFails, meta, hist,
                 fetchVars>>

\* (await head.parents()).map(p => this.oidMgr.convert(p))
pushCommitConvert(t) ==
  /\ ptask[t].pc = "convert"
  /\ LET parents == t[2][2].parents
         st == convertAll(
                 now([ptask EXCEPT
                        ![t].pc = "await",
                        ![t].parents = [i \in 1..Len(parents) |-> Pending]]),
                 t, parents, 1)
     IN  ptask' = st.tasks /\ oidMgr' = st.mgr
  /\ UNCHANGED <<repo, events, faults, url, vfs, cache, ipfs, push, pushRefs,
                 stdout, calls, minted, bodyRuns, bodyFails, meta, hist,
                 fetchVars>>

\* Promise.all has every parent
allResolved(t) ==
  \A i \in 1..Len(ptask[t].parents) : ptask[t].parents[i] # Pending

\* await Promise.all(...), head.headerField('gpgsig'), this.ipfs.dag.put(obj)
\* a variant that notifies the resolver as soon as the node is written,
\* before the cache has the entry
pushCommitDagPutNotify(t) ==
  /\ ptask[t].pc = "await"
  /\ allResolved(t)
  /\ LET obj == commitNode(t[2], ptask[t].tree, ptask[t].modes, ptask[t].parents)
         cid == dagCid("commit", obj)
         st == cidFound(now([ptask EXCEPT ![t].pc = "cachePut", ![t].cid = cid]),
                        t[2], cid)
     IN  /\ ipfs' = ipfs \cup {cid}
         /\ ptask' = st.tasks
         /\ oidMgr' = st.mgr
         /\ hist' = dagPut(cid)
  /\ UNCHANGED <<repo, events, faults, url, vfs, cache, push, pushRefs, stdout,
                 calls, minted, bodyRuns, bodyFails, meta, fetchVars>>

pushCommitDagPut(t) ==
  /\ ptask[t].pc = "await"
  /\ allResolved(t)
  /\ LET obj == commitNode(t[2], ptask[t].tree, ptask[t].modes, ptask[t].parents)
         cid == dagCid("commit", obj)
     IN  /\ ipfs' = ipfs \cup {cid}
         /\ ptask' = [ptask EXCEPT ![t].pc = "cachePut", ![t].cid = cid]
  /\ hist' = dagPut(dagCid("commit", commitNode(t[2], ptask[t].tree, ptask[t].modes,
                                               ptask[t].parents)))
  /\ UNCHANGED <<repo, events, faults, url, vfs, cache, oidMgr, push, pushRefs,
                 stdout, calls, minted, bodyRuns, bodyFails, meta, fetchVars>>

\* await this.cache.put(oid.toString(), cid); this.oidMgr.cidFound(oid, cid)
pushCommitCachePut(t) ==
  /\ ptask[t].pc = "cachePut"
  /\ cache' = cachePut(t[2], ptask[t].cid)
  /\ LET st == cidFound(now([ptask EXCEPT ![t].pc = "done"]), t[2], ptask[t].cid)
     IN  ptask' = st.tasks /\ oidMgr' = st.mgr
  /\ UNCHANGED <<repo, events, faults, url, vfs, ipfs, push, pushRefs, stdout,
                 calls, minted, bodyRuns, bodyFails, meta, hist, fetchVars>>

\* a collaborator call awaited by pushCommit or pushTree rejects: the
\* execution ends there, and whoever awaits it (nobody, when convert started
\* it) gets the error
pushCommitThrows(t) ==
  /\ faults < MaxFaults
  /\ faults' = faults + 1
  /\ \/ ptask[t].pc \in {"cacheGet", "lookup", "pushTree", "convert", "cachePut"}
     \/ ptask[t].pc = "await" /\ allResolved(t)
  /\ ptask' = [ptask EXCEPT ![t] = [idleTask EXCEPT !.pc = "failed"]]
  /\ bodyFails' = IF ptask[t].pc = "cacheGet" THEN bodyFails
                  ELSE [bodyFails EXCEPT ![t[2]] = @ + 1]
  /\ UNCHANGED <<repo, events, url, vfs, cache, ipfs, oidMgr, push, pushRefs,
                 stdout, calls, minted, bodyRuns, meta, hist, fetchVars>>

pushCommit(t) ==
  \/ pushCommitCacheGet(t)
  \/ pushCommitLookup(t)
  \/ pushTree(t)
  \/ pushCommitConvert(t)
  \/ pushCommitDagPut(t)
  \/ pushCommitCachePut(t)

(***************************************************************************)
(* create, pushTag and doPush.                                             *)
(***************************************************************************)
newPush ==
  [pc |-> "new", src |-> Nil, dst |-> Nil, oid |-> Nil, isTag |-> FALSE,
   type |-> Nil, cid |-> Nil, base |-> Nil, root |-> Nil, batch |-> <<>>]

\* constructor: this.vfs = meta
constructed(m) ==
  [name |-> m.name, uuid |-> m.uuid, refs |-> m.refs, HEAD |-> Nil]

\* (await this.ipfs.dag.get(`${root}/.git/`)).value
dagGetGit(root) == root[2][".git"][3]

\* a variant of create that keeps nothing of the remote
assignNothing(target, source) == source

\* Object.assign(target, source): the fields the source has win
assign(target, source) ==
  [k \in DOMAIN target |-> IF source[k] # Nil THEN source[k] ELSE target[k]]

\* async create()
create ==
  /\ push.pc = "new"
  /\ vfs' =
       IF url = Nil
       THEN vfs
       ELSE IF url[1] = "ipfs://"
       THEN IF url[2] # "" THEN [vfs EXCEPT !.name = <<url[2]>>] ELSE vfs
       ELSE assign(dagGetGit(url[2]), vfs)
  /\ push' = [push EXCEPT !.pc = "ready"]
  /\ UNCHANGED <<repo, events, faults, url, cache, ipfs, oidMgr, ptask,
                 pushRefs, stdout, calls, minted, bodyRuns, bodyFails, meta,
                 hist, fetchVars>>

\* the call doPush(pushRefs), up to the loop: this.vfs.HEAD = undefined
doPushCall ==
  /\ push.pc \in {"ready", "returned", "threw"}
  /\ calls < MaxCalls
  /\ \E batch \in Batches(repo) :
       /\ pushRefs' = batch
       /\ push' = [newPush EXCEPT !.pc = "loop", !.batch = batch]
  /\ calls' = calls + 1
  /\ vfs' = [vfs EXCEPT !.HEAD = Nil]
  /\ stdout' = <<>>
  /\ bodyRuns' = [o \in Commits |-> 0]
  /\ bodyFails' = [o \in Commits |-> 0]
  /\ hist' = [hist EXCEPT !.reputs = {}]
  /\ UNCHANGED <<repo, events, faults, url, cache, ipfs, oidMgr, ptask, minted,
                 meta, fetchVars>>

\* pushRefs.shift(); Git.Reference.nameToId(this.repo, src); then the call of
\* pushTag or pushCommit.  An unknown src throws into the catch of the loop.
doPushShift ==
  /\ push.pc = "loop"
  /\ pushRefs # <<>>
  /\ pushRefs' = Tail(pushRefs)
  /\ LET src == Head(pushRefs)[1]
         dst == Head(pushRefs)[2]
         oid == repo.refs[src]
         isTag == dst[2] = "tags"
         next == [push EXCEPT !.src = src, !.dst = dst, !.oid = oid,
                              !.isTag = isTag, !.type = Nil, !.cid = Nil]
     IN  IF src \notin DOMAIN repo.refs
         THEN UNCHANGED <<push, ptask>>
         ELSE IF isTag
         THEN push' = [next EXCEPT !.pc = "tagLookup"] /\ UNCHANGED ptask
         ELSE /\ push' = [next EXCEPT !.pc = "commit"]
              /\ ptask' = [ptask EXCEPT ![<<"direct", oid>>].pc = "cacheGet"]
  /\ UNCHANGED <<repo, events, faults, url, vfs, cache, ipfs, oidMgr, stdout,
                 calls, minted, bodyRuns, bodyFails, meta, hist, fetchVars>>

\* pushTag: Git.Tag.lookup, then pushCommit of the target; a lookup that
\* fails with "not a tag" calls oid itself as a lightweight tag
pushTagLookup ==
  /\ push.pc = "tagLookup"
  /\ LET annotated == push.oid[1] = "tag"
         target == IF annotated THEN push.oid[2].target ELSE push.oid
     IN  /\ push' = [push EXCEPT
                       !.pc = "commit",
                       !.type = IF annotated THEN "annotated" ELSE "lightweight"]
         /\ ptask' = [ptask EXCEPT ![<<"direct", target>>].pc = "cacheGet"]
  /\ UNCHANGED <<repo, events, faults, url, vfs, cache, ipfs, oidMgr, pushRefs,
                 stdout, calls, minted, bodyRuns, bodyFails, meta, hist,
                 fetchVars>>

\* the index of the first line equal to the PGP marker, 0 when there is none
RECURSIVE findIndex(_, _)
findIndex(lines, i) ==
  IF i > Len(lines) THEN 0
  ELSE IF lines[i] = "-----BEGIN PGP SIGNATURE-----" THEN i
  ELSE findIndex(lines, i + 1)

\* the tag node pushTag builds
tagNode(oid, name, type, commit) ==
  IF type = "annotated"
  THEN LET lines == oid[2].message
           startIdx == findIndex(lines, 1)
       IN  [commit |-> commit, taggerSig |-> <<objForSig(oid[2].tagger)>>,
            name |-> name, type |-> type, oid |-> oid,
            message |-> IF startIdx > 0
                        THEN <<SubSeq(lines, 1, startIdx - 1)>>
                        ELSE <<lines>>,
            signature |-> IF startIdx > 0
                          THEN <<SubSeq(lines, startIdx, Len(lines))>>
                          ELSE Nil]
  ELSE [commit |-> commit, taggerSig |-> Nil, name |-> name, type |-> type,
        oid |-> oid, message |-> Nil, signature |-> Nil]

\* the tree of the commit under cid: dag.get(`${cid}${isTag ? '/commit' : ''}`)
treeUnder(cid, isTag) ==
  IF isTag THEN cid[3].commit[3].tree ELSE cid[3].tree

\* a variant that stores the ref in place of the refs already there
setRefOnly(v, dst, cid) == [v EXCEPT !.refs = <<(dst :> cid)>>]

\* last[parts.slice(-1)[0]] = cid
setRef(v, dst, cid) ==
  [v EXCEPT !.refs = <<(dst :> cid) @@ (IF @ = Nil THEN <<>> ELSE @[1])>>]

\* doPush after `const cid = await (...)`: the ref is stored; with a base
\* already chosen the rest of the iteration runs without an await
\* a variant that moves HEAD to every pair that succeeds
setHEADLast(v, dst) == [v EXCEPT !.HEAD = <<dst>>]

\* `this.vfs.HEAD = this.vfs.HEAD || dst`
setHEAD(v, dst) == [v EXCEPT !.HEAD = IF @ = Nil THEN <<dst>> ELSE @]

recorded(cid) ==
  /\ vfs' = IF push.base # Nil
            THEN setHEAD(setRef(vfs, push.dst, cid), push.dst)
            ELSE setRef(vfs, push.dst, cid)
  /\ push' = [push EXCEPT !.cid = cid,
                          !.pc = IF push.base # Nil THEN "loop" ELSE "getBase"]
  /\ stdout' = IF push.base # Nil THEN Append(stdout, <<"ok", push.dst>>)
               ELSE stdout

\* pushCommit(oid) has returned to doPush or to pushTag
doPushCommitDone ==
  /\ push.pc = "commit"
  /\ \E t \in PTaskIds :
       /\ t[1] = "direct"
       /\ ptask[t].pc = "done"
       /\ ptask' = [ptask EXCEPT ![t] = idleTask]
       /\ IF push.isTag
          THEN /\ push' = [push EXCEPT !.pc = "tagPut", !.cid = ptask[t].cid]
               /\ UNCHANGED <<vfs, stdout>>
          ELSE recorded(ptask[t].cid)
  /\ UNCHANGED <<repo, events, faults, url, cache, ipfs, oidMgr, pushRefs,
                 calls, minted, bodyRuns, bodyFails, meta, hist, fetchVars>>

\* return await this.ipfs.dag.put(obj, { pin: true }) of pushTag
pushTagPut ==
  /\ push.pc = "tagPut"
  /\ LET name == SubSeq(push.dst, 3, Len(push.dst))
         cid == dagCid("tag", tagNode(push.oid, name, push.type, push.cid))
     IN  /\ ipfs' = ipfs \cup {cid}
         /\ recorded(cid)
  /\ hist' = dagPut(dagCid("tag", tagNode(push.oid, SubSeq(push.dst, 3, Len(push.dst)),
                                         push.type, push.cid)))
  /\ UNCHANGED <<repo, events, faults, url, cache, oidMgr, ptask, pushRefs,
                 calls, minted, bodyRuns, bodyFails, meta, fetchVars>>

\* base = base || (await this.ipfs.dag.get(...)).value.tree, HEAD, `ok <dst>`
doPushGetBase ==
  /\ push.pc = "getBase"
  /\ push' = [push EXCEPT !.pc = "loop",
                          !.base = treeUnder(push.cid, push.isTag)]
  /\ vfs' = setHEAD(vfs, push.dst)
  /\ stdout' = Append(stdout, <<"ok", push.dst>>)
  /\ UNCHANGED <<repo, events, faults, url, cache, ipfs, oidMgr, ptask,
                 pushRefs, calls, minted, bodyRuns, bodyFails, meta, hist,
                 fetchVars>>

\* the catch of the loop: the pair's pushCommit threw
doPushCatch ==
  /\ push.pc = "commit"
  /\ \E t \in PTaskIds :
       /\ t[1] = "direct"
       /\ ptask[t].pc = "failed"
       /\ ptask' = [ptask EXCEPT ![t] = idleTask]
  /\ push' = [push EXCEPT !.pc = "loop"]
  /\ UNCHANGED <<repo, events, faults, url, vfs, cache, ipfs, oidMgr, pushRefs,
                 stdout, calls, minted, bodyRuns, bodyFails, meta, hist,
                 fetchVars>>

\* the catch of the loop: Git.Tag.lookup (with another error than "not a
\* tag"), the dag.put of pushTag or the dag.get of doPush rejects
doPushThrows ==
  /\ faults < MaxFaults
  /\ faults' = faults + 1
  /\ push.pc \in {"tagLookup", "tagPut", "getBase"}
  /\ push' = [push EXCEPT !.pc = "loop"]
  /\ UNCHANGED <<repo, events, url, vfs, cache, ipfs, oidMgr, ptask, pushRefs,
                 stdout, calls, minted, bodyRuns, bodyFails, meta, hist,
                 fetchVars>>

\* after the loop: the uuid, dag.put(this.vfs), addLink of `.git`, pin.add.
\* Without a base (no pair succeeded) addLink is called on undefined and
\* doPush rejects.
doPushFinish ==
  /\ push.pc = "loop"
  /\ pushRefs = <<>>
  /\ LET mint == vfs.uuid = Nil
         v == [vfs EXCEPT !.uuid = IF mint THEN <<<<"uuidv1", minted + 1>>>> ELSE @]
         git == dagCid("vfs", v)
     IN  /\ vfs' = v
         /\ minted' = IF mint THEN minted + 1 ELSE minted
         /\ ipfs' = ipfs \cup {git}
                    \cup (IF push.base = Nil THEN {}
                          ELSE {addLink(push.base, ".git", git)})
         /\ hist' = [dagPut(git) EXCEPT
                       !.done = IF push.base = Nil THEN @
                                ELSE Append(@, [batch |-> push.batch,
                                                root |-> addLink(push.base, ".git", git),
                                                oks |-> Len(stdout)])]
         /\ push' = IF push.base = Nil
                    THEN [push EXCEPT !.pc = "threw"]
                    ELSE [push EXCEPT !.pc = "returned",
                                      !.root = addLink(push.base, ".git", git)]
  /\ UNCHANGED <<repo, events, faults, url, cache, oidMgr, ptask, pushRefs,
                 stdout, calls, bodyRuns, bodyFails, meta, fetchVars>>

\* a later run of the helper on the remote a push returned: `ipfs::<CID>`
continue ==
  /\ push.pc = "returned"
  /\ calls < MaxCalls
  /\ \E m \in Metas : meta' = m /\ vfs' = constructed(m)
  /\ url' = <<"cid", push.root>>
  /\ push' = newPush
  /\ oidMgr' = <<>>
  /\ ptask' = [t \in PTaskIds |-> idleTask]
  /\ stdout' = <<>>
  /\ UNCHANGED <<repo, events, faults, cache, ipfs, pushRefs, calls, minted,
                 bodyRuns, bodyFails, hist, fetchVars>>

(***************************************************************************)
(* cidMgr: the fetch-side resolver.                                        *)
(***************************************************************************)
newFetch == [pc |-> "new", root |-> Nil, todo |-> <<>>, ref |-> Nil, sub |-> Nil]

\* the address `${process.argv[3]}/.git/${ref}`
gitPath(root, ref) == <<"path", root, ref>>

\* (await this.ipfs.dag.get(cid)).value, of a CID or of a path under the root
dagGet(c) == IF c[1] = "path" THEN dagGetGit(c[2]).refs[1][c[3]][3] ELSE c[3]

\* fetchCommit(cid) up to its first await
newFTask ==
  [pc |-> "get", node |-> Nil, treeOid |-> Nil, parents |-> <<>>,
   commit |-> Nil]

\* the promise cidMgr.convert(cid) returns, up to `await this.cache.get(cid)`
newSub(c) == [cid |-> c, pc |-> "cacheGet", oid |-> Nil]

\* doFetch itself as a waiter (fetchTag awaits convert)
doFetchId == <<"doFetch">>

\* the tasks, resolvers and doFetch during a synchronous stretch of code
nowF(tasks, main) == [tasks |-> tasks, mgr |-> cidMgr, main |-> main]

\* the synchronous part of cidMgr.convert(cid): a new key starts fetchCommit
convertF(st, c) ==
  IF c \in DOMAIN st.mgr
  THEN st
  ELSE [st EXCEPT !.tasks = (c :> newFTask) @@ st.tasks,
                  !.mgr = (c :> <<>>) @@ st.mgr]

RECURSIVE convertAllF(_, _, _)
convertAllF(st, cids, i) ==
  IF i > Len(cids) THEN st
  ELSE convertAllF(convertF(st, cids[i]), cids, i + 1)

\* a resolver is called with oid: the promise of that waiter resolves
resolveF(st, waiter, oid) ==
  IF waiter.task = doFetchId
  THEN [st EXCEPT !.main.sub.pc = "resolved", !.main.sub.oid = oid]
  ELSE [st EXCEPT !.tasks[waiter.task].parents[waiter.index].pc = "lookup",
                  !.tasks[waiter.task].parents[waiter.index].oid = oid]

\* the loop of oidFound: pop each resolver and call it with oid
RECURSIVE wakeF(_, _, _)
wakeF(st, waiters, oid) ==
  IF waiters = <<>>
  THEN st
  ELSE wakeF(resolveF(st, waiters[Len(waiters)], oid),
             SubSeq(waiters, 1, Len(waiters) - 1), oid)

\* the callback of this.cache.put(cid, oid).then(...) in cidMgr.oidFound
oidFound(st, c, oid) ==
  IF c \in DOMAIN st.mgr
  THEN [wakeF(st, st.mgr[c], oid) EXCEPT !.mgr[c] = <<>>]
  ELSE st

(***************************************************************************)
(* fetchTree.  An execution is named by the fetchCommit it belongs to and  *)
(* the path of the directory; each entry of the listing runs on its own.   *)
(***************************************************************************)
newTree(cid, modesCid) ==
  [cid |-> cid, modesCid |-> modesCid, modes |-> <<>>, tb |-> <<>>,
   ents |-> <<>>, st |-> "ls"]

\* all(this.ipfs.ls(root)), Treebuilder.create, dag.get(modesCID); then every
\* entry runs up to its `await this.cache.get(cid)`
fetchTreeLs(k) ==
  /\ ftree[k].st = "ls"
  /\ ftree' = [ftree EXCEPT
                 ![k].st = "entries",
                 ![k].modes = ftree[k].modesCid[3],
                 ![k].ents = [n \in DOMAIN ftree[k].cid[2] |->
                                [pc |-> "get", cid |-> ftree[k].cid[2][n],
                                 oid |-> Nil]]]
  /\ UNCHANGED <<repo, events, faults, cache, ipfs, pushVars, fetch, cidMgr,
                 ftask, odb, refsB>>

isDir(e) == e.cid[1] = "dir"

\* tb.insert(name, oid, mode): the entry is done
inserted(k, n, oid) ==
  LET mode == IF isDir(ftree[k].ents[n]) THEN FILEMODE.TREE
              ELSE ftree[k].modes[n][2]
  IN  [ftree EXCEPT ![k].ents[n].pc = "done", ![k].ents[n].oid = oid,
                    ![k].tb = (n :> TreeEntry(mode, oid)) @@ @]

\* the entry was not in the cache, or not in the object database: a
\* directory calls fetchTree(cid, modes[name]), a file is read with ipfs.cat
missed(k, n) ==
  IF isDir(ftree[k].ents[n])
  THEN (<<k[1], Append(k[2], n)>> :>
          newTree(ftree[k].ents[n].cid, ftree[k].modes[n]))
       @@ [ftree EXCEPT ![k].ents[n].pc = "tree"]
  ELSE [ftree EXCEPT ![k].ents[n].pc = "cat"]

\* let oid = await this.cache.get(cid)
fetchEntryGet(k, n) ==
  /\ ftree[k].st # "ls"
  /\ n \in DOMAIN ftree[k].ents
  /\ ftree[k].ents[n].pc = "get"
  /\ LET oid == cacheGet(ftree[k].ents[n].cid)
     IN  ftree' = IF oid = Nil
                  THEN missed(k, n)
                  ELSE [ftree EXCEPT ![k].ents[n].pc = "inODB",
                                     ![k].ents[n].oid = oid]
  /\ UNCHANGED <<repo, events, faults, cache, ipfs, pushVars, fetch, cidMgr,
                 ftask, odb, refsB>>

\* await this.oidInODB(oid.toString())
fetchEntryInODB(k, n) ==
  /\ ftree[k].st # "ls"
  /\ n \in DOMAIN ftree[k].ents
  /\ ftree[k].ents[n].pc = "inODB"
  /\ ftree' = IF ftree[k].ents[n].oid \in odb
              THEN inserted(k, n, ftree[k].ents[n].oid)
              ELSE missed(k, n)
  /\ UNCHANGED <<repo, events, faults, cache, ipfs, pushVars, fetch, cidMgr,
                 ftask, odb, refsB>>

\* toBuffer(this.ipfs.cat(cid)) and Git.Blob.createFromBuffer
fetchEntryCat(k, n) ==
  /\ ftree[k].st # "ls"
  /\ n \in DOMAIN ftree[k].ents
  /\ ftree[k].ents[n].pc = "cat"
  /\ LET oid == BlobOid(ftree[k].ents[n].cid[2])
     IN  /\ odb' = odb \cup {oid}
         /\ ftree' = [ftree EXCEPT ![k].ents[n].pc = "put",
                                   ![k].ents[n].oid = oid]
  /\ UNCHANGED <<repo, events, faults, cache, ipfs, pushVars, fetch, cidMgr,
                 ftask, refsB>>

\* await this.cache.put(cid, oid), then tb.insert
fetchEntryPut(k, n) ==
  /\ ftree[k].st # "ls"
  /\ n \in DOMAIN ftree[k].ents
  /\ ftree[k].ents[n].pc = "put"
  /\ cache' = cachePut(ftree[k].ents[n].cid, ftree[k].ents[n].oid)
  /\ ftree' = inserted(k, n, ftree[k].ents[n].oid)
  /\ UNCHANGED <<repo, events, faults, ipfs, pushVars, fetch, cidMgr, ftask,
                 odb, refsB>>

\* Promise.all(...) is settled: every entry is done, or one has rejected
\* (which .catch(console.error) swallows)
settled(k) ==
  /\ ftree[k].st = "entries"
  /\ \/ \A n \in DOMAIN ftree[k].ents : ftree[k].ents[n].pc = "done"
     \/ \E n \in DOMAIN ftree[k].ents : ftree[k].ents[n].pc = "failed"

\* const oid = await tb.write(); return oid -- to the entry of the parent
\* directory that awaits it, or to fetchCommit
fetchTreeWrite(k) ==
  /\ settled(k)
  /\ LET oid == TreeOid(ftree[k].tb)
         up == <<k[1], SubSeq(k[2], 1, Len(k[2]) - 1)>>
         written == [ftree EXCEPT ![k].st = "written"]
     IN  /\ odb' = odb \cup {oid}
         /\ IF k[2] = <<>>
            THEN /\ ftree' = written
                 /\ ftask' = [ftask EXCEPT ![k[1]].pc = "lookup",
                                           ![k[1]].treeOid = oid]
            ELSE /\ ftree' = [written EXCEPT
                                ![up].ents[k[2][Len(k[2])]].pc = "put",
                                ![up].ents[k[2][Len(k[2])]].oid = oid]
                 /\ UNCHANGED ftask
  /\ UNCHANGED <<repo, events, faults, cache, ipfs, pushVars, fetch, cidMgr,
                 refsB>>

fetchTree(k) ==
  \/ fetchTreeLs(k)
  \/ \E n \in NameSet :
       \/ fetchEntryGet(k, n)
       \/ fetchEntryInODB(k, n)
       \/ fetchEntryCat(k, n)
       \/ fetchEntryPut(k, n)
  \/ fetchTreeWrite(k)


(***************************************************************************)
(* fetchCommit.  A task is named by the address it was called with.        *)
(***************************************************************************)
\* const root = (await this.ipfs.dag.get(cid)).value, then the call of
\* fetchTree(treeCID, modes)
fetchCommitGet(c) ==
  /\ ftask[c].pc = "get"
  /\ ftask' = [ftask EXCEPT ![c].pc = "tree", ![c].node = dagGet(c)]
  /\ ftree' = (<<c, <<>>>> :> newTree(dagGet(c).tree, dagGet(c).modes)) @@ ftree
  /\ UNCHANGED <<repo, events, faults, cache, ipfs, pushVars, fetch, cidMgr,
                 odb, refsB>>

\* Git.Tree.lookup(this.repo, treeOID), then parentCIDs.map(...): each
\* parent runs cidMgr.convert(c) up to its first await
fetchCommitLookup(c) ==
  /\ ftask[c].pc = "lookup"
  /\ LET cids == ftask[c].node.parents
         st == convertAllF(nowF(ftask, fetch), cids, 1)
     IN  /\ ftask' = [st.tasks EXCEPT
                        ![c].pc = "parents",
                        ![c].parents = [i \in 1..Len(cids) |-> newSub(cids[i])]]
         /\ cidMgr' = st.mgr
  /\ UNCHANGED <<repo, events, faults, cache, ipfs, pushVars, fetch, ftree,
                 odb, refsB>>

\* in the promise of convert: `await this.cache.get(cid)` reads the store;
\* the promise body goes on in a later turn of the event loop
fetchParentCacheGet(c, i) ==
  /\ ftask[c].pc = "parents"
  /\ i \in DOMAIN ftask[c].parents
  /\ ftask[c].parents[i].pc = "cacheGet"
  /\ ftask' = [ftask EXCEPT
                 ![c].parents[i].pc = "got",
                 ![c].parents[i].oid = cacheGet(ftask[c].parents[i].cid)]
  /\ UNCHANGED <<repo, events, faults, cache, ipfs, pushVars, fetch, cidMgr,
                 ftree, odb, refsB>>

\* the promise body after the await: a hit resolves with the OID read, a miss
\* pushes the resolver
fetchParentGot(c, i) ==
  /\ ftask[c].pc = "parents"
  /\ i \in DOMAIN ftask[c].parents
  /\ ftask[c].parents[i].pc = "got"
  /\ IF ftask[c].parents[i].oid # Nil
     THEN /\ ftask' = [ftask EXCEPT ![c].parents[i].pc = "lookup"]
          /\ UNCHANGED cidMgr
     ELSE /\ ftask' = [ftask EXCEPT ![c].parents[i].pc = "waiting"]
          /\ cidMgr' = [cidMgr EXCEPT
                          ![ftask[c].parents[i].cid] =
                            Append(@, [task |-> c, index |-> i])]
  /\ UNCHANGED <<repo, events, faults, cache, ipfs, pushVars, fetch, ftree,
                 odb, refsB>>

\* const commit = await Git.Commit.lookup(this.repo, oid): throws when the
\* object database has no such commit, and fetchCommit rejects
fetchParentLookup(c, i) ==
  /\ ftask[c].pc = "parents"
  /\ i \in DOMAIN ftask[c].parents
  /\ ftask[c].parents[i].pc = "lookup"
  /\ ftask' = IF ftask[c].parents[i].oid \in odb
              THEN [ftask EXCEPT ![c].parents[i].pc = "done"]
              ELSE [ftask EXCEPT ![c].pc = "failed"]
  /\ UNCHANGED <<repo, events, faults, cache, ipfs, pushVars, fetch, cidMgr,
                 ftree, odb, refsB>>

\* the commit Git.Commit.create / createBuffer + createWithSignature write
createdCommit(node, treeOid, parents) ==
  CommitOid([tree |-> treeOid, parents |-> parents,
             author |-> sigForObj(node.authorSig),
             committer |-> sigForObj(node.committerSig),
             encoding |-> node.encoding, message |-> node.message,
             gpgsig |-> node.signature])

\* the commit is created; cidMgr.oidFound(cid, oid) starts its cache.put and
\* fetchCommit returns the commit
fetchCommitCreate(c) ==
  /\ ftask[c].pc = "parents"
  /\ \A i \in DOMAIN ftask[c].parents : ftask[c].parents[i].pc = "done"
  /\ LET commit == createdCommit(ftask[c].node, ftask[c].treeOid,
                                 [i \in DOMAIN ftask[c].parents |->
                                    ftask[c].parents[i].oid])
     IN  /\ odb' = odb \cup {commit}
         /\ ftask' = [ftask EXCEPT ![c].pc = "put", ![c].commit = commit]
  /\ UNCHANGED <<repo, events, faults, cache, ipfs, pushVars, fetch, cidMgr,
                 ftree, refsB>>

\* this.cache.put(cid, oid).then(...): the resolvers of cid are called
\* the promises of cidMgr.convert that are not settled
converts ==
  UNION {{ftask[c].parents[i] : i \in DOMAIN ftask[c].parents} :
           c \in DOMAIN ftask}
  \cup (IF fetch.pc = "tag" THEN {fetch.sub} ELSE {})

fetchCommitOidFound(c) ==
  /\ ftask[c].pc = "put"
  /\ cache' = cachePut(c, ftask[c].node.oid)
  /\ LET st == oidFound(nowF([ftask EXCEPT ![c].pc = "done"], fetch), c,
                        ftask[c].node.oid)
     IN  ftask' = st.tasks /\ cidMgr' = st.mgr /\ fetch' = st.main
  /\ hist' = IF \E p \in converts : p.cid = c /\ p.pc = "got" /\ p.oid = Nil
             THEN [hist EXCEPT !.overtaken = @ \cup {c}]
             ELSE hist
  /\ UNCHANGED <<repo, events, faults, ipfs, url, vfs, oidMgr, ptask, push,
                 pushRefs, stdout, calls, minted, bodyRuns, bodyFails, meta,
                 ftree, odb, refsB>>

fetchCommit(c) ==
  \/ fetchCommitGet(c)
  \/ fetchCommitLookup(c)
  \/ \E i \in 1..2 :
       \/ fetchParentCacheGet(c, i)
       \/ fetchParentGot(c, i)
       \/ fetchParentLookup(c, i)
  \/ fetchCommitCreate(c)
  \/ fetchCommitOidFound(c)
  \/ \E path \in {<<>>, <<"a">>, <<"b">>, <<"d">>} :
       <<c, path>> \in DOMAIN ftree /\ fetchTree(<<c, path>>)

(***************************************************************************)
(* doFetch and fetchTag.                                                   *)
(***************************************************************************)
\* the references of the remote: the names Git can ask for
remoteRefs(root) ==
  IF dagGetGit(root).refs = Nil THEN {} ELSE DOMAIN dagGetGit(root).refs[1]

\* the helper is started in a fresh repository B (an empty object database)
\* with the root as its url, and Git calls doFetch(fetchRefs).  The cache is
\* the one of the pushes: they wrote OID and `modes:` keys, a fetch reads and
\* writes CID and path keys.
doFetchCall ==
  /\ push.pc = "returned"
  /\ fetch.pc = "new"
  /\ calls < MaxCalls
  /\ calls' = calls + 1
  /\ \E r1 \in remoteRefs(push.root), r2 \in remoteRefs(push.root) :
       fetch' = [newFetch EXCEPT
                   !.pc = "loop", !.root = push.root,
                   !.todo = IF r1 = r2 THEN <<r1>> ELSE <<r1, r2>>]
  /\ url' = <<"cid", push.root>>
  /\ meta' = [name |-> Nil, uuid |-> Nil, refs |-> Nil]
  /\ vfs' = assign(dagGetGit(push.root), constructed(meta'))
  /\ push' = [newPush EXCEPT !.pc = "exited"]
  /\ oidMgr' = <<>>
  /\ ptask' = [t \in PTaskIds |-> idleTask]
  /\ pushRefs' = <<>>
  /\ stdout' = <<>>
  /\ bodyRuns' = [o \in Commits |-> 0]
  /\ bodyFails' = [o \in Commits |-> 0]
  /\ hist' = newHist
  /\ UNCHANGED <<repo, events, faults, cache, ipfs, minted, cidMgr, ftask,
                 ftree, odb, refsB>>

isTagRef(ref) == Len(ref) >= 2 /\ ref[1] = "refs" /\ ref[2] = "tags"

\* the next [hash, ref] of the loop: fetchTag or fetchCommit is called with
\* `${process.argv[3]}/.git/${ref}`
doFetchNext ==
  /\ fetch.pc = "loop"
  /\ fetch.todo # <<>>
  /\ LET ref == Head(fetch.todo)
     IN  /\ fetch' = [fetch EXCEPT
                        !.pc = IF isTagRef(ref) THEN "tag" ELSE "commit",
                        !.ref = ref, !.todo = Tail(fetch.todo),
                        !.sub = [cid |-> Nil, pc |-> "get", oid |-> Nil]]
         /\ ftask' = IF isTagRef(ref) THEN ftask
                     ELSE (gitPath(fetch.root, ref) :> newFTask) @@ ftask
  /\ UNCHANGED <<repo, events, faults, cache, ipfs, pushVars, cidMgr, ftree,
                 odb, refsB>>

\* fetchTag: dag.get(cid), then cidMgr.convert(commitCID) up to its await
fetchTagGet ==
  /\ fetch.pc = "tag"
  /\ fetch.sub.pc = "get"
  /\ LET node == dagGet(gitPath(fetch.root, fetch.ref))
         st == convertF(nowF(ftask, fetch), node.commit)
     IN  /\ ftask' = st.tasks
         /\ cidMgr' = st.mgr
         /\ fetch' = [fetch EXCEPT !.sub = newSub(node.commit)]
  /\ UNCHANGED <<repo, events, faults, cache, ipfs, pushVars, ftree, odb,
                 refsB>>

\* in the promise of convert called by fetchTag: the read of the store
fetchTagCacheGet ==
  /\ fetch.pc = "tag"
  /\ fetch.sub.pc = "cacheGet"
  /\ fetch' = [fetch EXCEPT !.sub.pc = "got",
                            !.sub.oid = cacheGet(fetch.sub.cid)]
  /\ UNCHANGED <<repo, events, faults, cache, ipfs, pushVars, cidMgr, ftask,
                 ftree, odb, refsB>>

\* the promise body after the await: resolve, or push the resolver
fetchTagGot ==
  /\ fetch.pc = "tag"
  /\ fetch.sub.pc = "got"
  /\ IF fetch.sub.oid # Nil
     THEN /\ fetch' = [fetch EXCEPT !.sub.pc = "resolved"]
          /\ UNCHANGED cidMgr
     ELSE /\ fetch' = [fetch EXCEPT !.sub.pc = "waiting"]
          /\ cidMgr' = [cidMgr EXCEPT
                          ![fetch.sub.cid] =
                            Append(@, [task |-> doFetchId, index |-> 0])]
  /\ UNCHANGED <<repo, events, faults, cache, ipfs, pushVars, ftask, ftree,
                 odb, refsB>>

\* the tag object Git.Tag.create / createWithSignature write
createdTag(node, commit) ==
  TagOid([target |-> commit, tagger |-> sigForObj(node.taggerSig[1]),
          message |-> node.message[1] \o
                      (IF node.signature = Nil THEN <<>> ELSE node.signature[1])])

\* Git.Tag.create*(this.repo, name, commit, ..., force): the tag and its
\* reference are written; a target missing from the object database throws
fetchTagCreate ==
  /\ fetch.pc = "tag"
  /\ fetch.sub.pc = "resolved"
  /\ LET node == dagGet(gitPath(fetch.root, fetch.ref))
         commit == fetch.sub.oid
         tag == IF node.type = "annotated" THEN createdTag(node, commit)
                ELSE commit
     IN  IF commit \in odb
         THEN /\ odb' = odb \cup {tag}
              /\ refsB' = (<<"refs", "tags">> \o node.name :> tag) @@ refsB
         ELSE UNCHANGED <<odb, refsB>>
  /\ fetch' = [fetch EXCEPT !.pc = "loop"]
  /\ UNCHANGED <<repo, events, faults, cache, ipfs, pushVars, cidMgr, ftask,
                 ftree>>

\* fetchCommit returned: this.repo.createBranch(name, commit)
doFetchCommitDone ==
  /\ fetch.pc = "commit"
  /\ ftask[gitPath(fetch.root, fetch.ref)].commit # Nil
  /\ refsB' = (fetch.ref :> ftask[gitPath(fetch.root, fetch.ref)].commit)
              @@ refsB
  /\ fetch' = [fetch EXCEPT !.pc = "loop"]
  /\ UNCHANGED <<repo, events, faults, cache, ipfs, pushVars, cidMgr, ftask,
                 ftree, odb>>

\* fetchCommit or fetchTag rejected: catch(err) { console.error(err) }
doFetchCatch ==
  /\ \/ fetch.pc = "commit" /\ ftask[gitPath(fetch.root, fetch.ref)].pc = "failed"
     \/ fetch.pc = "tag" /\ fetch.sub.pc = "failed"
  /\ fetch' = [fetch EXCEPT !.pc = "loop"]
  /\ UNCHANGED <<repo, events, faults, cache, ipfs, pushVars, cidMgr, ftask,
                 ftree, odb, refsB>>

\* after the loop: dag.get(`${process.argv[3]}/.git/HEAD`), repo.setHead
doFetchFinish ==
  /\ fetch.pc = "loop"
  /\ fetch.todo = <<>>
  /\ fetch' = [fetch EXCEPT !.pc = "returned"]
  /\ refsB' = (<<"HEAD">> :> dagGetGit(fetch.root).HEAD) @@ refsB
  /\ UNCHANGED <<repo, events, faults, cache, ipfs, pushVars, cidMgr, ftask,
                 ftree, odb>>

(***************************************************************************)
(* Failing collaborator calls on the fetch side.                           *)
(***************************************************************************)
\* this.ipfs.ls or dag.get(modesCID) rejects: fetchTree rejects, into the
\* entry of the parent directory or into fetchCommit
fetchTreeThrows(k) ==
  /\ faults < MaxFaults
  /\ faults' = faults + 1
  /\ ftree[k].st = "ls"
  /\ LET up == <<k[1], SubSeq(k[2], 1, Len(k[2]) - 1)>>
         failed == [ftree EXCEPT ![k].st = "failed"]
     IN  IF k[2] = <<>>
         THEN /\ ftree' = failed
              /\ ftask' = [ftask EXCEPT ![k[1]].pc = "failed"]
         ELSE /\ ftree' = [failed EXCEPT
                             ![up].ents[k[2][Len(k[2])]].pc = "failed"]
              /\ UNCHANGED ftask
  /\ UNCHANGED <<repo, events, cache, ipfs, pushVars, fetch, cidMgr, odb,
                 refsB>>

\* this.ipfs.cat(cid) rejects: the callback of that entry rejects
fetchEntryThrows(k, n) ==
  /\ faults < MaxFaults
  /\ faults' = faults + 1
  /\ ftree[k].st # "ls"
  /\ n \in DOMAIN ftree[k].ents
  /\ ftree[k].ents[n].pc = "cat"
  /\ ftree' = [ftree EXCEPT ![k].ents[n].pc = "failed"]
  /\ UNCHANGED <<repo, events, cache, ipfs, pushVars, fetch, cidMgr, ftask,
                 odb, refsB>>

\* this.ipfs.dag.get(cid) rejects in fetchCommit
fetchCommitThrows(c) ==
  /\ faults < MaxFaults
  /\ faults' = faults + 1
  /\ ftask[c].pc = "get"
  /\ ftask' = [ftask EXCEPT ![c].pc = "failed"]
  /\ UNCHANGED <<repo, events, cache, ipfs, pushVars, fetch, cidMgr, ftree,
                 odb, refsB>>

\* this.ipfs.dag.get(cid) rejects in fetchTag
fetchTagThrows ==
  /\ faults < MaxFaults
  /\ faults' = faults + 1
  /\ fetch.pc = "tag"
  /\ fetch.sub.pc = "get"
  /\ fetch' = [fetch EXCEPT !.sub.pc = "failed"]
  /\ UNCHANGED <<repo, events, cache, ipfs, pushVars, cidMgr, ftask, ftree,
                 odb, refsB>>

(***************************************************************************)
(* The user.                                                               *)
(***************************************************************************)
\* `hash-cache:clear` (cache.drop()), or the cache directory is deleted
cacheClear ==
  /\ events < MaxEvents
  /\ events' = events + 1
  /\ cache # <<>>
  /\ cache' = <<>>
  /\ UNCHANGED <<repo, faults, ipfs, pushVars, fetchVars>>

Init ==
  /\ repo \in Repos
  /\ faults = 0
  /\ events = 0
  /\ \E c \in Constructions :
       url = c[1] /\ meta = c[2] /\ vfs = constructed(c[2])
  /\ cache = <<>>
  /\ ipfs = {EMPTY_REPO_CID}
  /\ oidMgr = <<>>
  /\ ptask = [t \in PTaskIds |-> idleTask]
  /\ push = newPush
  /\ pushRefs = <<>>
  /\ stdout = <<>>
  /\ calls = 0
  /\ minted = 0
  /\ bodyRuns = [o \in Commits |-> 0]
  /\ bodyFails = [o \in Commits |-> 0]
  /\ hist = newHist
  /\ fetch = newFetch
  /\ cidMgr = <<>>
  /\ ftask = <<>>
  /\ ftree = <<>>
  /\ odb = {}
  /\ refsB = <<>>

\* the steps in which every collaborator call succeeds
Run ==
  \/ create
  \/ doPushCall
  \/ doPushShift
  \/ pushTagLookup
  \/ \E t \in PTaskIds : pushCommit(t)
  \/ doPushCommitDone
  \/ pushTagPut
  \/ doPushGetBase
  \/ doPushCatch
  \/ doPushFinish
  \/ continue
  \/ doFetchCall
  \/ doFetchNext
  \/ fetchTagGet
  \/ fetchTagCacheGet
  \/ fetchTagGot
  \/ fetchTagCreate
  \/ \E c \in DOMAIN ftask : fetchCommit(c)
  \/ doFetchCommitDone
  \/ doFetchCatch
  \/ doFetchFinish

\* the steps in which a collaborator call fails
Throws ==
  \/ \E t \in PTaskIds : pushCommitThrows(t)
  \/ doPushThrows
  \/ \E k \in DOMAIN ftree :
       \/ fetchTreeThrows(k)
       \/ \E n \in NameSet : fetchEntryThrows(k, n)
  \/ \E c \in DOMAIN ftask : fetchCommitThrows(c)
  \/ fetchTagThrows

\* what the user can do while the helper runs
\* the objects of repository B are lost (the objects of a fetch that no
\* reference names yet are pruned, or .git/objects is removed) while the
\* cache keeps its entries
prune ==
  /\ events < MaxEvents
  /\ events' = events + 1
  /\ odb # {}
  /\ odb' = {}
  /\ UNCHANGED <<repo, faults, cache, ipfs, pushVars, fetch, cidMgr, ftask,
                 ftree, refsB>>

User ==
  \/ cacheClear
  \/ prune

Next == Run \/ Throws

Spec == Init /\ [][Next]_vars

\* the helper of a repository named by `ipfs://proj`, every call of which
\* succeeds, with a user who intervenes
UserInit == Init /\ url = <<"ipfs://", "proj">> /\ meta.name = Nil /\ meta.refs = Nil

UserNext == Run \/ User

UserSpec == UserInit /\ [][UserNext]_vars

(***************************************************************************)
(* Properties.                                                             *)
(***************************************************************************)
\* doPush is inside its loop or waiting for the pushCommit / pushTag it called
inPush == push.pc \in {"loop", "tagLookup", "commit", "tagPut", "getBase"}

\* the commit nodes written to IPFS
commitNodes == {cid \in ipfs : cid[1] = "cbor" /\ cid[2] = "commit"}

\* the fetchCommit executions that have created their commit
created == {c \in DOMAIN ftask : ftask[c].commit # Nil}

\* C1: with no failing call, every commit fetchCommit creates in repository B
\* has the OID of the commit it was pushed from (the `oid` of its node).
C1_RoundTrip ==
  faults = 0 => \A c \in created : ftask[c].commit = ftask[c].node.oid

\* C2: during one doPush the body of pushCommit runs at most once for each
\* OID, and every caller that has a result for an OID has the same CID.
C2_BodyOnce == \A o \in Commits : bodyRuns[o] <= 1

\* C2 (as the code has it): the body of pushCommit runs again for an OID only
\* after a run of it has failed, and every parent slot that is resolved and
\* every pushCommit that is done holds the one CID the cache has for its OID.
C2_Coalesced ==
  /\ \A o \in Commits : bodyRuns[o] <= 1 + bodyFails[o]
  /\ \A t \in PTaskIds :
       /\ ptask[t].pc = "done" => ptask[t].cid = cacheGet(t[2])
       /\ \A i \in DOMAIN ptask[t].parents :
            ptask[t].parents[i] # Pending
              => ptask[t].parents[i] = cacheGet(t[2][2].parents[i])

\* cA was reached as the parent of cP1 and as the second parent of the merge,
\* both have its CID, and its body ran once
C2_Witness ==
  /\ bodyRuns[cA] = 1
  /\ ptask[<<"conv", cP1>>].parents # <<>>
  /\ Len(ptask[<<"direct", cM>>].parents) = 2
  /\ ptask[<<"conv", cP1>>].parents[1] # Pending
  /\ ptask[<<"direct", cM>>].parents[2] = ptask[<<"conv", cP1>>].parents[1]

\* C3: in a doPush in which no call fails, a step towards the return of
\* doPush is always possible: no promise of oidMgr.convert stays unresolved.
C3_NoHang == (faults = 0 /\ inPush) => ENABLED Run

\* C4: when the pushCommit that oidMgr.convert started has failed, no waiter
\* registered for its OID is left pending.
C4_FanOut ==
  \A oid \in DOMAIN oidMgr :
    ptask[<<"conv", oid>>].pc = "failed" => oidMgr[oid] = <<>>

\* C5: after a failure in the push of a pair, doPush can always go on: to
\* its catch, to the remaining pairs and to its end.
C5_Isolated == (faults > 0 /\ inPush) => ENABLED Run

\* the modes of t1 are those of t2 at every path both trees have
RECURSIVE sameModes(_, _)
sameModes(t1, t2) ==
  \A n \in DOMAIN t1[2] \cap DOMAIN t2[2] :
    /\ t1[2][n].mode = t2[2][n].mode
    /\ t1[2][n].mode = FILEMODE.TREE => sameModes(t1[2][n].oid, t2[2][n].oid)

\* C6: every tree fetchCommit gets from fetchTree has, at every path, the
\* mode the path has in the tree of the commit that was pushed.
C6_Modes ==
  \A c \in DOMAIN ftask :
    ftask[c].treeOid # Nil
      => sameModes(ftask[c].treeOid, ftask[c].node.oid[2].tree)

\* C7: the node pushCommit writes lists the CIDs of the parents in the
\* commit's parent order, and the commit fetchCommit creates lists the
\* parents in the order of the node's `parents`, under every interleaving.
C7_ParentOrder ==
  /\ \A cid \in commitNodes :
       /\ Len(cid[3].parents) = Len(cid[3].oid[2].parents)
       /\ \A i \in DOMAIN cid[3].parents :
            cid[3].parents[i][3].oid = cid[3].oid[2].parents[i]
  /\ \A c \in created :
       /\ Len(ftask[c].commit[2].parents) = Len(ftask[c].node.parents)
       /\ \A i \in DOMAIN ftask[c].node.parents :
            ftask[c].commit[2].parents[i] = ftask[c].node.parents[i][3].oid

\* the merge was pushed and has been created again by a fetch
C7_Witness ==
  /\ \E cid \in commitNodes : cid[3].oid = cM
  /\ \E c \in created : Len(ftask[c].commit[2].parents) = 2

\* doPush has returned the root of an instance created on a CID url
continued == push.pc = "returned" /\ url # Nil /\ url[1] = "cid"

\* C8: the root serialized by a continuation has the uuid of the remote it
\* continues.
C8_Continued ==
  continued => dagGetGit(push.root).uuid = dagGetGit(url[2]).uuid

\* C8 (as the code has it): when the caller's meta supplies no uuid, the root
\* of a continuation has the uuid of the remote and the root of any other
\* instance has a uuid minted by doPush; and no step of an instance changes a
\* uuid that is set.
C8_UuidStable ==
  /\ [](push.pc = "returned" /\ meta.uuid = Nil
          => IF continued
             THEN dagGetGit(push.root).uuid = dagGetGit(url[2]).uuid
             ELSE /\ dagGetGit(push.root).uuid[1][1] = "uuidv1"
                  /\ dagGetGit(push.root).uuid[1][2] = minted)
  /\ [][vfs.uuid # Nil /\ push'.pc \notin {"new", "exited"}
          => vfs'.uuid = vfs.uuid]_vars

\* a continuation without a uuid in meta has returned its root
C8_Witness == continued /\ meta.uuid = Nil

\* the `.git` value of the remote the instance continues, and of its new root
prev == dagGetGit(url[2])
new == dagGetGit(push.root)
refsOf(git) == IF git.refs = Nil THEN <<>> ELSE git.refs[1]
dsts == {push.batch[i][2] : i \in DOMAIN push.batch}

\* the refs of the remote that the batch does not name are in the new root
untouched ==
  \A r \in DOMAIN refsOf(prev) \ dsts :
    r \in DOMAIN refsOf(new) /\ refsOf(new)[r] = refsOf(prev)[r]

\* every dst reported `ok` maps to the node of the object its src names
pushedRefs ==
  \A i \in DOMAIN stdout :
    /\ stdout[i][2] \in DOMAIN refsOf(new)
    /\ refsOf(new)[stdout[i][2]][3].oid = repo.refs[push.batch[
         CHOOSE j \in DOMAIN push.batch : push.batch[j][2] = stdout[i][2]][1]]

\* C9: after a continuation push the refs of the previous remote that the
\* batch does not name persist with their CIDs, the name is carried over and
\* every dst pushed maps to the CID this push produced.
C9_Additive_Any ==
  continued => untouched /\ new.name = prev.name /\ pushedRefs

\* C9 (as the code has it): the refs the batch does not name persist when the
\* caller's meta supplies no refs, the name is carried over when meta supplies
\* no name, and every dst pushed maps to the CID this push produced.
C9_Additive ==
  continued =>
    /\ meta.refs = Nil => untouched
    /\ meta.name = Nil => new.name = prev.name
    /\ pushedRefs

\* a continuation pushed a ref and the remote had another the batch left alone
C9_Witness ==
  /\ continued
  /\ meta.refs = Nil /\ meta.name = Nil
  /\ stdout # <<>>
  /\ DOMAIN refsOf(prev) \ dsts # {}

\* C10: no step replaces the value the cache has for a key by another value.
C10_Monotone ==
  [][\A k \in DOMAIN cache : k \in DOMAIN cache' /\ cache'[k] = cache[k]]_vars

\* the doPush that returned before the one that runs or has just returned
earlier == IF push.pc = "returned" THEN Len(hist.done) - 1 ELSE Len(hist.done)
previous == hist.done[earlier]

\* the doPush that runs or has just returned repeats the one before it: no
\* call failed, the same batch, every pair of which was pushed, and the same
\* name and uuid
repeats ==
  /\ faults = 0
  /\ inPush \/ push.pc = "returned"
  /\ earlier >= 1
  /\ previous.batch = push.batch
  /\ previous.oks = Len(push.batch)
  /\ vfs.name = dagGetGit(previous.root).name
  /\ vfs.uuid = dagGetGit(previous.root).uuid

\* C11: a doPush that repeats the one before it gives no node to dag.put that
\* IPFS already has, and returns the same root CID.
C11_Idempotent ==
  repeats => /\ hist.reputs = {}
             /\ push.pc = "returned" => push.root = previous.root

\* doFetch has been called and has not returned
fetching == fetch.pc \in {"loop", "commit", "tag"}

\* C12: with no failing call, a doFetch can always go on towards its return,
\* also when the cache has been emptied while it runs (set aside the runs in
\* which the drain of oidFound overtook a convert that had read the cache).
C12_ClearSafe ==
  (faults = 0 /\ fetching /\ hist.overtaken = {}) => ENABLED Run

\* the UnixFS directory of a Git tree: a file for each blob, a directory for
\* each tree
RECURSIVE unixfs(_)
unixfs(t) ==
  <<"dir", [n \in DOMAIN t[2] |->
              IF t[2][n].mode = FILEMODE.TREE THEN unixfs(t[2][n].oid)
              ELSE FileCid(t[2][n].oid[2])]>>

C14_CacheAfterPush ==
  (push.pc = "returned" /\ calls = 1 /\ faults = 0) =>
    \A k \in DOMAIN stdout :
      LET src == (CHOOSE pair \in {push.batch[i] : i \in DOMAIN push.batch} :
                    pair[2] = stdout[k][2])[1]
          obj == repo.refs[src]
          commit == IF obj[1] = "tag" THEN obj[2].target ELSE obj
      IN  /\ cacheGet(commit) # Nil
          /\ cacheGet(commit)[3].oid = commit
          /\ cacheGet(modesKey(commit[2].tree)) = cacheGet(commit)[3].modes

\* C15: with no failing call no pushCommit rejects: a tree entry that is
\* neither a blob nor a tree (a gitlink) is skipped, pushTree goes on with the
\* other entries and completes.
C15_Skipped == faults = 0 => \A t \in PTaskIds : ptask[t].pc # "failed"

\* the directory fs and the modes node m are those of the Git tree t: the
\* same names, a file with its mode, a directory with the modes node of the
\* subtree
RECURSIVE treeInv(_, _, _)
treeInv(t, fs, m) ==
  /\ fs[1] = "dir" /\ m[1] = "cbor" /\ m[2] = "modes"
  /\ DOMAIN fs[2] = DOMAIN m[3]
  /\ DOMAIN fs[2] \subseteq DOMAIN t[2]
  /\ \A n \in DOMAIN fs[2] :
       IF t[2][n].mode = FILEMODE.TREE
       THEN fs[2][n][1] = "dir" /\ treeInv(t[2][n].oid, fs[2][n], m[3][n])
       ELSE fs[2][n][1] = "file" /\ m[3][n] = <<"mode", t[2][n].mode>>

\* C16: every pair (fsCID, modesCID) pushTree has returned to pushCommit, and
\* every pair a running pushTree holds for a child tree, read from the cache
\* or returned by its recursive call, has the same names in the directory and
\* in the modes mapping, the file mode for a file and the subtree's modesCID
\* for a directory.
C16_TreeInvariant ==
  \A t \in PTaskIds :
    /\ ptask[t].tree # Nil => treeInv(t[2][2].tree, ptask[t].tree, ptask[t].modes)
    /\ (inTree(t, "link") /\ entry(t).mode = FILEMODE.TREE)
         => treeInv(entry(t).oid, top(t).cid, top(t).childModes)
    /\ (inTree(t, "getModes") /\ top(t).cid # Nil
        /\ cacheGet(modesKey(entry(t).oid)) # Nil)
         => treeInv(entry(t).oid, top(t).cid, cacheGet(modesKey(entry(t).oid)))

\* pushTree has read the CID and the modesCID of a child tree from the cache
C16_Witness ==
  \E t \in PTaskIds :
    /\ inTree(t, "getModes")
    /\ top(t).cid # Nil
    /\ cacheGet(modesKey(entry(t).oid)) # Nil

\* C17: a tree fetchTree has written has an entry for every name of the
\* UnixFS listing it was given, and so has the tree of every commit that
\* fetchCommit has created: a failure in an entry is no way to a tree without
\* it.
C17_Surfaces ==
  /\ \A k \in DOMAIN ftree :
       ftree[k].st = "written" => DOMAIN ftree[k].tb = DOMAIN ftree[k].cid[2]
  /\ \A c \in created :
       DOMAIN ftask[c].commit[2].tree[2] = DOMAIN ftask[c].node.tree[2]

\* C18: the OID a convert takes from the cache and delivers to its caller
\* names an object that is in the object database of B at that moment.
C18_InODB ==
  [][/\ \A c \in DOMAIN ftask : \A i \in DOMAIN ftask[c].parents :
          (ftask[c].parents[i].pc = "got" /\ ftask'[c].parents[i].pc = "lookup")
            => ftask[c].parents[i].oid \in odb
     /\ (fetch.pc = "tag" /\ fetch.sub.pc = "got" /\ fetch'.sub.pc = "resolved")
          => fetch.sub.oid \in odb]_vars

\* C19: with no failing call, no resolver of convert(cid) is left in the list
\* of cid once fetchCommit(cid) has published its OID: the drain of oidFound
\* misses no convert, however its cache lookup interleaves with the put and
\* the drain.
C19_NoLostWakeup ==
  faults = 0 =>
    \A p \in converts :
      p.pc = "waiting" => ~(p.cid \in DOMAIN ftask /\ ftask[p.cid].pc = "done")

\* C20: during one doFetch with no failing call no two executions of
\* fetchCommit are for the same commit: each commit of the remote is
\* translated at most once, whether it is the tip of a ref, the target of a
\* tag or a parent.
C20_Coalesced ==
  faults = 0 =>
    \A c1 \in DOMAIN ftask, c2 \in DOMAIN ftask :
      (ftask[c1].node # Nil /\ ftask[c2].node # Nil
       /\ ftask[c1].node.oid = ftask[c2].node.oid)
        => c1 = c2

\* C21: the OID fetchCommit has cached for its CID, once it has published, is
\* the OID of the commit it created in the object database.
C21_Verified ==
  \A c \in DOMAIN ftask :
    ftask[c].pc = "done" => cacheGet(c) = ftask[c].commit

\* C22: in a step that wakes a waiter of oidMgr with the CID of an OID, the
\* cache maps the OID to that CID and IPFS has the commit node; in a step
\* that wakes a waiter of cidMgr with the OID of a CID, the cache maps the CID
\* to that OID.
C22_PublishFirst ==
  [][/\ \A t \in PTaskIds :
          \A i \in DOMAIN ptask[t].parents \cap DOMAIN ptask'[t].parents :
            (ptask[t].parents[i] = Pending /\ ptask'[t].parents[i] # Pending)
              => /\ t[2][2].parents[i] \in DOMAIN cache'
                 /\ cache'[t[2][2].parents[i]] = ptask'[t].parents[i]
                 /\ ptask'[t].parents[i] \in ipfs'
     /\ \A c \in DOMAIN ftask \cap DOMAIN ftask' :
          \A i \in DOMAIN ftask[c].parents \cap DOMAIN ftask'[c].parents :
            (ftask[c].parents[i].pc = "waiting"
             /\ ftask'[c].parents[i].pc = "lookup")
              => /\ ftask[c].parents[i].cid \in DOMAIN cache'
                 /\ cache'[ftask[c].parents[i].cid] = ftask'[c].parents[i].oid
     /\ (fetch.pc = "tag" /\ fetch'.pc = "tag" /\ fetch.sub.pc = "waiting"
         /\ fetch'.sub.pc = "resolved")
          => /\ fetch.sub.cid \in DOMAIN cache'
             /\ cache'[fetch.sub.cid] = fetch'.sub.oid]_vars

\* a waiter of oidMgr.convert has been woken: a pushCommit holds the CID of
\* a parent, which the cache has for the parent's OID
C22_Witness ==
  \E t \in PTaskIds : \E i \in DOMAIN ptask[t].parents :
    /\ ptask[t].parents[i] # Pending
    /\ cacheGet(t[2][2].parents[i]) = ptask[t].parents[i]

\* C23: when the first doPush of an instance has returned, `ok <dst>` was
\* written for a pair of the batch if and only if the VFS serialized under
\* `.git` of the root has a CID at dst.
C23_OkIffStored ==
  (push.pc = "returned" /\ calls = 1) =>
    \A i \in DOMAIN push.batch :
      (\E k \in DOMAIN stdout : stdout[k] = <<"ok", push.batch[i][2]>>)
        <=> push.batch[i][2] \in DOMAIN refsOf(dagGetGit(push.root))

====
